---- MODULE Spec2Model ----
(***************************************************************************)
(* Model of src/main.py: the payment webhook (handle_webhook), the two     *)
(* notification sinks, the two access grantors, the in-memory ledger       *)
(* active_users and deactivate_user.                                       *)
(*                                                                         *)
(* Every coroutine runs on one asyncio event loop, so the code between two *)
(* awaits is one atomic step.  An action of the model is one such step: a  *)
(* request arriving, or an awaited external call returning (normally or    *)
(* with an exception) and the handler running on to its next await or to   *)
(* its return.                                                             *)
(***************************************************************************)
EXTENDS Naturals, Sequences, FiniteSets, Bags, TLC

\* Webhook invocations that may be in flight at the same time.
NumReqs == 2
\* Largest reading of the event loop's clock.
MaxTime == 1

Subjects == {"alice@example.com", "bob@example.com"}
Statuses == {"confirmed", "waiting"}

\* A field the JSON body does not carry.
NoField == "<missing>"

\* The request bodies: one that is not JSON at all, and JSON objects that
\* carry or lack payment_status and order_description.  The other fields of
\* NowPaymentsWebhook only reach the text of the notification message.
Bodies ==
    {[json |-> FALSE, payment_status |-> NoField, order_description |-> NoField]}
    \cup [json : {TRUE},
          payment_status : Statuses,
          order_description : Subjects \cup {NoField}]

\* How a call into python-telegram-bot through run_in_executor ends:
\* normally, with a TelegramError, or with an exception of another class
\* (run_in_executor raises RuntimeError once the executor is shut down).
TelegramOutcomes == {"ok", "TelegramError", "RuntimeError"}
\* How a call into discord.py ends: normally or with an exception
\* (discord.HTTPException and its subclasses Forbidden, NotFound, ...).
DiscordOutcomes == {"ok", "HTTPException"}

VARIABLES
    active_users,   \* the ledger: subject -> [paid, timestamp]
    tasks,          \* the bag of suspended invocations: [pc, data, calls] each
    last,           \* the request that completed last, with its response
    discord_ready,  \* whether the Discord client has become ready
    clock           \* asyncio.get_event_loop().time()

vars == <<active_users, tasks, last, discord_ready, clock>>

----------------------------------------------------------------------------
(* Pure helpers *)

\* request.json(): whether the body parses as JSON.
JsonOk(data) == data.json

\* Mutant of Validates: the body is used as parsed, without the schema.
Validates_Unchecked(data) == TRUE

\* NowPaymentsWebhook(**data): every declared field is required.
Validates(data) ==
    /\ data.payment_status # NoField
    /\ data.order_description # NoField

\* The exception that reading the body raises: request.json() on a body
\* that is not JSON, else the model's constructor on a missing field.
ParseError(data) ==
    IF ~JsonOk(data) THEN "JSONDecodeError" ELSE "ValidationError"

\* Mutant of IsConfirmed: any status that is present counts.
IsConfirmed_Truthy(status) == status # NoField

\* if status == "confirmed"
IsConfirmed(status) == status = "confirmed"

\* except TelegramError: the only exception the Telegram helpers swallow.
Swallowed(outcome) == outcome = "TelegramError"

\* Mutant of Upsert: the ledger is rebuilt around the one record.
Upsert_Rebuild(ledger, email, record) == [k \in {email} |-> record]

\* Mutant of Upsert: setdefault, a record already there is kept.
Upsert_SetDefault(ledger, email, record) ==
    [k \in (DOMAIN ledger) \cup {email} |->
        IF k \in DOMAIN ledger THEN ledger[k] ELSE record]

\* active_users[email] = record
Upsert(ledger, email, record) ==
    [k \in (DOMAIN ledger) \cup {email} |->
        IF k = email THEN record ELSE ledger[k]]

\* Mutant of Entry: the record says unpaid.
Entry_Unpaid(now) == [paid |-> FALSE, timestamp |-> now]

\* {"paid": True, "timestamp": asyncio.get_event_loop().time()}
Entry(now) == [paid |-> TRUE, timestamp |-> now]

\* Mutant of Remove: the del is missing.
Remove_Noop(ledger, email) == ledger

\* Mutant of Remove: the whole ledger is cleared.
Remove_Clear(ledger, email) == [k \in {} |-> ledger[k]]

\* del active_users[email]
Remove(ledger, email) ==
    [k \in (DOMAIN ledger) \ {email} |-> ledger[k]]

EmptyLedger == [k \in {} |-> [paid |-> TRUE, timestamp |-> 0]]

\* The record the subject had before a write, for the trace of a request.
NoRecord == [paid |-> FALSE, timestamp |-> 0]
Prior(ledger, email) ==
    IF email \in DOMAIN ledger THEN ledger[email] ELSE NoRecord

NoRequest == [op |-> "none"]

----------------------------------------------------------------------------
(* The handler's control flow.  The invocations are anonymous coroutines:  *)
(* t is the local state of the one that runs (its body and the calls it    *)
(* has made so far) and rest is the bag of the other suspended ones.       *)

\* t after the invocation has called f.
Called(t, f) == [t EXCEPT !.calls = Append(@, f)]

\* The suspended invocations other than t.
Others(t) == tasks (-) SetToBag({t})

\* Where the suspended invocations are.
Suspended(at) == {t \in BagToSet(tasks) : t.pc = at}

\* The invocation suspends in the awaited call `at`.
Await(rest, t, at) ==
    /\ tasks' = rest (+) SetToBag({[t EXCEPT !.pc = at]})
    /\ UNCHANGED <<active_users, last>>

\* return JSONResponse(...): the invocation ends.
JSONResponse(rest, t, code, body, prior) ==
    /\ tasks' = rest
    /\ last' = [op |-> "webhook", request |-> t.data, code |-> code,
                body |-> body, calls |-> t.calls, prior |-> prior]

\* Mutant of InternalError: no except clause, the exception leaves the
\* handler and no response is made.
InternalError_Escapes(rest, t, e) ==
    /\ tasks' = rest
    /\ UNCHANGED <<active_users, last>>

\* Mutant of InternalError: the ledger write sits in a finally clause and
\* runs on the error path too.
InternalError_StillWrites(rest, t, e) ==
    /\ JSONResponse(rest, t, 500, e, NoRecord)
    /\ active_users' =
          IF Validates(t.data) /\ IsConfirmed(t.data.payment_status)
          THEN Upsert(active_users, t.data.order_description, Entry(clock))
          ELSE active_users

\* except Exception as e: return JSONResponse(content={"error": str(e)},
\* status_code=500)
InternalError(rest, t, e) ==
    /\ JSONResponse(rest, t, 500, e, NoRecord)
    /\ UNCHANGED active_users

\* return JSONResponse(content={"status": "received"}, status_code=200)
\* on the path that did not write the ledger.
Received(rest, t) ==
    /\ JSONResponse(rest, t, 200, "received", NoRecord)
    /\ UNCHANGED active_users

\* active_users[user_email] = {...}, then the acknowledgment: no await
\* lies between the two.
LedgerWrite(rest, t) ==
    LET email == t.data.order_description IN
    /\ active_users' = Upsert(active_users, email, Entry(clock))
    /\ JSONResponse(rest, Called(t, "active_users"), 200, "received",
                    Prior(active_users, email))

\* give_discord_access up to its await: the guild and channel lookup finds
\* the channel or not.
give_discord_access(rest, t) ==
    \E channel \in BOOLEAN :
        IF channel
        THEN Await(rest, t, "create_invite")
        ELSE LedgerWrite(rest, t)

\* give_telegram_access up to its await.
give_telegram_access(rest, t) == Await(rest, t, "unban_chat_member")

\* Mutant of GrantPhase: the ledger is written before the grantors run.
GrantPhase_WriteFirst(rest, t) ==
    IF IsConfirmed(t.data.payment_status)
    THEN /\ active_users' = Upsert(active_users, t.data.order_description,
                                   Entry(clock))
         /\ tasks' = rest (+) SetToBag({
                [Called(Called(t, "active_users"), "give_telegram_access")
                    EXCEPT !.pc = "unban_chat_member"]})
         /\ UNCHANGED last
    ELSE Received(rest, t)

\* if status == "confirmed": ... ; return the acknowledgment.
GrantPhase(rest, t) ==
    IF IsConfirmed(t.data.payment_status)
    THEN give_telegram_access(rest, Called(t, "give_telegram_access"))
    ELSE Received(rest, t)

\* send_discord_message after wait_until_ready: get_channel finds the
\* channel or not.
get_channel(rest, t) ==
    \E channel \in BOOLEAN :
        IF channel
        THEN Await(rest, t, "channel_send")
        ELSE GrantPhase(rest, t)

\* send_discord_message up to its first await that suspends.
send_discord_message(rest, t) ==
    IF discord_ready
    THEN get_channel(rest, t)
    ELSE Await(rest, t, "wait_until_ready")

----------------------------------------------------------------------------
(* Actions *)

Init ==
    /\ active_users = EmptyLedger
    /\ tasks = EmptyBag
    /\ last = NoRequest
    /\ discord_ready = FALSE
    /\ clock = 0

\* POST /nowpayments-webhook arrives: the body is read and validated, the
\* message composed, and send_telegram_message entered.  authentic tells
\* whether the request was signed with NOWPAYMENTS_API_KEY; the handler
\* reads neither the key nor anything of the request but its body.
handle_webhook(data, authentic) ==
    /\ BagCardinality(tasks) < NumReqs
    /\ LET t == [pc |-> "start", data |-> data, calls |-> <<>>] IN
       IF JsonOk(data) /\ Validates(data)
       THEN Await(tasks, Called(t, "send_telegram_message"), "send_message")
       ELSE InternalError(tasks, t, ParseError(data))
    /\ UNCHANGED <<discord_ready, clock>>

\* telegram_bot.send_message ends.
send_message_returns(t, outcome) ==
    /\ t \in Suspended("send_message")
    /\ IF outcome = "ok" \/ Swallowed(outcome)
       THEN send_discord_message(Others(t), Called(t, "send_discord_message"))
       ELSE InternalError(Others(t), t, outcome)
    /\ UNCHANGED <<discord_ready, clock>>

\* discord_bot.wait_until_ready() returns, which it does once the client is
\* ready.
wait_until_ready_returns(t) ==
    /\ t \in Suspended("wait_until_ready")
    /\ discord_ready
    /\ get_channel(Others(t), t)
    /\ UNCHANGED <<discord_ready, clock>>

\* channel.send(message) ends.
channel_send_returns(t, outcome) ==
    /\ t \in Suspended("channel_send")
    /\ IF outcome = "ok"
       THEN GrantPhase(Others(t), t)
       ELSE InternalError(Others(t), t, outcome)
    /\ UNCHANGED <<discord_ready, clock>>

\* telegram_bot.unban_chat_member ends.
unban_chat_member_returns(t, outcome) ==
    /\ t \in Suspended("unban_chat_member")
    /\ IF outcome = "ok" \/ Swallowed(outcome)
       THEN give_discord_access(Others(t), Called(t, "give_discord_access"))
       ELSE InternalError(Others(t), t, outcome)
    /\ UNCHANGED <<discord_ready, clock>>

\* channel.create_invite ends.
create_invite_returns(t, outcome) ==
    /\ t \in Suspended("create_invite")
    /\ IF outcome = "ok"
       THEN LedgerWrite(Others(t), t)
       ELSE InternalError(Others(t), t, outcome)
    /\ UNCHANGED <<discord_ready, clock>>

\* POST /deactivate-user/{email}: no await, one step.
deactivate_user(email) ==
    /\ IF email \notin DOMAIN active_users
       THEN /\ last' = [op |-> "deactivate", request |-> email, code |-> 404,
                        body |-> "User not found"]
            /\ UNCHANGED active_users
       ELSE /\ active_users' = Remove(active_users, email)
            /\ last' = [op |-> "deactivate", request |-> email, code |-> 200,
                        body |-> "removed"]
    /\ UNCHANGED <<tasks, discord_ready, clock>>

\* The Discord client, started in its own thread, becomes ready.
on_ready ==
    /\ ~discord_ready
    /\ discord_ready' = TRUE
    /\ UNCHANGED <<active_users, tasks, last, clock>>

\* The event loop's monotonic clock advances.
Tick ==
    /\ clock < MaxTime
    /\ clock' = clock + 1
    /\ UNCHANGED <<active_users, tasks, last, discord_ready>>

Next ==
    \/ \E data \in Bodies, authentic \in BOOLEAN :
          handle_webhook(data, authentic)
    \/ \E t \in BagToSet(tasks), outcome \in TelegramOutcomes :
          send_message_returns(t, outcome)
    \/ \E t \in BagToSet(tasks) : wait_until_ready_returns(t)
    \/ \E t \in BagToSet(tasks), outcome \in DiscordOutcomes :
          channel_send_returns(t, outcome)
    \/ \E t \in BagToSet(tasks), outcome \in TelegramOutcomes :
          unban_chat_member_returns(t, outcome)
    \/ \E t \in BagToSet(tasks), outcome \in DiscordOutcomes :
          create_invite_returns(t, outcome)
    \/ \E email \in Subjects : deactivate_user(email)
    \/ on_ready
    \/ Tick

Spec == Init /\ [][Next]_vars

\* The event loop resumes a coroutine once the call it awaits has ended, and
\* here every remote call that was issued is taken to end.  Nothing makes
\* the Discord client become ready: start_discord_bot may fail and only
\* logs it.
FairSpec ==
    /\ Spec
    /\ WF_vars(\E t \in BagToSet(tasks), outcome \in TelegramOutcomes :
                  send_message_returns(t, outcome))
    /\ WF_vars(\E t \in BagToSet(tasks) : wait_until_ready_returns(t))
    /\ WF_vars(\E t \in BagToSet(tasks), outcome \in DiscordOutcomes :
                  channel_send_returns(t, outcome))
    /\ WF_vars(\E t \in BagToSet(tasks), outcome \in TelegramOutcomes :
                  unban_chat_member_returns(t, outcome))
    /\ WF_vars(\E t \in BagToSet(tasks), outcome \in DiscordOutcomes :
                  create_invite_returns(t, outcome))

----------------------------------------------------------------------------
(* Vocabulary of the properties *)

\* A body that schema validation must reject.
Malformed(data) ==
    \/ ~data.json
    \/ data.payment_status = NoField
    \/ data.order_description = NoField

\* How often f occurs in a log of calls.
Count(calls, f) == Cardinality({i \in 1..Len(calls) : calls[i] = f})
InLog(calls, f) == Count(calls, f) > 0

\* The step in which a webhook invocation returns its response; last'
\* then describes that invocation.
WebhookReturns ==
    /\ last'.op = "webhook"
    /\ \/ BagCardinality(tasks') < BagCardinality(tasks)
       \/ tasks' = tasks /\ last' # last

\* The step of a deactivate_user request; last' then describes it.
DeactivateStep ==
    /\ last'.op = "deactivate"
    /\ last' # last

\* The completed request was a webhook with a valid body of that status.
LastValid == last.op = "webhook" /\ ~Malformed(last.request)
LastConfirmed == LastValid /\ last.request.payment_status = "confirmed"

----------------------------------------------------------------------------
(* Properties *)

\* C1: when handle_webhook returns for a valid confirmed notification whose
\* processing invoked both grantors, the ledger holds the notification's
\* subject with paid = TRUE, whatever the grantors did.
C1_ConfirmedIsLedgered ==
    [][(/\ WebhookReturns
        /\ ~Malformed(last'.request)
        /\ last'.request.payment_status = "confirmed"
        /\ InLog(last'.calls, "give_discord_access"))
       => (/\ last'.request.order_description \in DOMAIN active_users'
           /\ active_users'[last'.request.order_description].paid)]_vars

\* C2: a valid confirmed notification whose processing reached the Guild
\* grantor is answered with the 200 acknowledgment, never a 5xx, and the
\* ledger was written, whether the grantor succeeded or raised.
C2_GrantorFailureAcknowledged ==
    (LastConfirmed /\ InLog(last.calls, "give_discord_access"))
        => (last.code = 200 /\ InLog(last.calls, "active_users"))

\* C3: an invocation that reached the grant phase has invoked
\* give_telegram_access exactly once and give_discord_access exactly once.
C3_BothGrantorsInvoked ==
    (LastConfirmed /\ InLog(last.calls, "give_telegram_access"))
        => (/\ Count(last.calls, "give_telegram_access") = 1
            /\ Count(last.calls, "give_discord_access") = 1)

\* C4: a valid notification whose payment_status is not "confirmed" never
\* calls a grantor, and the step in which its invocation returns leaves the
\* ledger as it was; the steps in which an invocation only suspends leave
\* the ledger as it was too.
C4_NonConfirmedNoEffect ==
    /\ [](\A t \in BagToSet(tasks) :
            t.data.payment_status # "confirmed"
                => (/\ ~InLog(t.calls, "give_telegram_access")
                    /\ ~InLog(t.calls, "give_discord_access")))
    /\ [][(/\ WebhookReturns
           /\ ~Malformed(last'.request)
           /\ last'.request.payment_status # "confirmed")
          => (/\ active_users' = active_users
              /\ ~InLog(last'.calls, "give_telegram_access")
              /\ ~InLog(last'.calls, "give_discord_access")
              /\ ~InLog(last'.calls, "active_users"))]_vars
    /\ [][(tasks' # tasks /\ ~WebhookReturns)
          => active_users' = active_users]_vars

\* C4 witness: a "waiting" notification was acknowledged while the ledger
\* held an entry.
C4_Witness ==
    /\ LastValid
    /\ last.request.payment_status = "waiting"
    /\ last.code = 200
    /\ InLog(last.calls, "send_discord_message")
    /\ DOMAIN active_users # {}

\* C5: a body that fails schema validation is rejected in the step in which
\* it arrives: no invocation is ever suspended on such a body, the response
\* is not the acknowledgment, no fanout or grantor call and no ledger write
\* is in its log, and the ledger is as it was.
C5_MalformedRejectedEarly ==
    /\ [](\A t \in BagToSet(tasks) : ~Malformed(t.data))
    /\ []((last.op = "webhook" /\ Malformed(last.request))
            => (last.calls = <<>> /\ last.code >= 400))
    /\ [][(WebhookReturns /\ Malformed(last'.request))
          => (active_users' = active_users /\ tasks' = tasks)]_vars

\* C5 witness: a body without order_description was rejected while the
\* ledger held an entry and another invocation was in flight.
C5_Witness ==
    /\ last.op = "webhook"
    /\ last.request.json
    /\ last.request.payment_status = "confirmed"
    /\ last.request.order_description = NoField
    /\ last.code >= 400
    /\ DOMAIN active_users # {}
    /\ tasks # EmptyBag

\* The step in which the invocation of a valid confirmed notification
\* returns while the ledger already holds its subject: the notification is
\* processed again.
ProcessedAgain ==
    /\ WebhookReturns
    /\ ~Malformed(last'.request)
    /\ last'.request.payment_status = "confirmed"
    /\ last'.request.order_description \in DOMAIN active_users

\* C6 as claimed: processing a confirmed notification again leaves the
\* ledger identical, timestamp included.
C6_SecondProcessingIdentical ==
    [][ProcessedAgain => active_users' = active_users]_vars

\* C6 as amended: processing a confirmed notification again leaves the key
\* set and every other subject's record as they were and the subject's
\* record with paid = TRUE; its timestamp is the clock's reading at the
\* latest write and is never smaller than before.
C6_SecondProcessingUpsert ==
    [][ProcessedAgain
       => LET s == last'.request.order_description IN
          /\ DOMAIN active_users' = DOMAIN active_users
          /\ \A k \in DOMAIN active_users \ {s} :
                active_users'[k] = active_users[k]
          /\ active_users[s].paid /\ active_users'[s].paid
          /\ active_users'[s].timestamp >= active_users[s].timestamp
          /\ InLog(last'.calls, "active_users")
                => active_users'[s].timestamp = clock]_vars

\* C6 witness: a confirmed notification was acknowledged for a subject the
\* ledger already held, another subject being in the ledger, and the
\* timestamp moved.
C6_Witness ==
    /\ LastConfirmed
    /\ last.code = 200
    /\ last.prior.paid
    /\ LET s == last.request.order_description IN
       /\ s \in DOMAIN active_users
       /\ active_users[s].timestamp > last.prior.timestamp
       /\ DOMAIN active_users # {s}

\* C7: deactivate_user on a subject the ledger lacks answers 404 and leaves
\* the ledger as it was; on a subject the ledger holds it answers
\* {status: "removed"} and the ledger loses exactly that key, every other
\* entry unchanged.
C7_DeactivateExactlyOne ==
    [][DeactivateStep
       => LET s == last'.request IN
          IF s \notin DOMAIN active_users
          THEN /\ last'.code = 404
               /\ active_users' = active_users
          ELSE /\ last'.code = 200
               /\ last'.body = "removed"
               /\ DOMAIN active_users' = DOMAIN active_users \ {s}
               /\ \A k \in DOMAIN active_users' :
                     active_users'[k] = active_users[k]]_vars

\* C7 witness: a subject was removed and the other subject's entry is still
\* in the ledger.
C7_Witness ==
    /\ last.op = "deactivate"
    /\ last.code = 200
    /\ last.request \notin DOMAIN active_users
    /\ DOMAIN active_users # {}

\* C8: an invocation whose last call was send_discord_message, that is, one
\* that returned from the fanout, returned the acknowledgment and is not a
\* confirmed one (a confirmed one goes on to the grant phase): no failure
\* of the Discord sink changes the caller's result.
C8_FanoutBestEffort ==
    (/\ LastValid
     /\ InLog(last.calls, "send_discord_message")
     /\ ~InLog(last.calls, "give_telegram_access"))
        => (last.code = 200 /\ last.request.payment_status # "confirmed")

\* C9: a body that fails schema validation is answered with a 4xx.
C9_MalformedIs4xx ==
    (last.op = "webhook" /\ Malformed(last.request))
        => (last.code >= 400 /\ last.code <= 499)

\* C10: an invocation waiting for the Discord client to become ready does
\* not wait forever: whenever one waits, a state follows in which none
\* does.  No invocation starts to wait once the client is ready, so the
\* waiting ones are the same invocations throughout.
C10_WaitIsBounded ==
    (Suspended("wait_until_ready") # {})
        ~> (Suspended("wait_until_ready") = {})

\* C11: the arrival of a request that is not authentic has no effect: no
\* invocation goes on to the fanout, the grantors or the ledger, and the
\* request is refused.
C11_UnauthenticatedRefused ==
    [][\A data \in Bodies :
          handle_webhook(data, FALSE)
              => (/\ tasks' = tasks
                  /\ active_users' = active_users
                  /\ last'.code >= 400
                  /\ last'.calls = <<>>)]_vars

\* C12: a valid notification that is not confirmed is answered with the 200
\* acknowledgment after no call at all: no fanout send, no grantor call, no
\* ledger write.
C12_NonConfirmedNoOp ==
    (LastValid /\ last.request.payment_status # "confirmed")
        => (last.code = 200 /\ last.calls = <<>>)

\* C13: a valid notification with payment_status "waiting" that is
\* acknowledged has the response body {status: "pending"}.
C13_WaitingIsPending ==
    (LastValid /\ last.request.payment_status = "waiting" /\ last.code = 200)
        => last.body = "pending"

\* The step in which a webhook invocation writes the ledger (and returns).
WebhookWrites ==
    WebhookReturns /\ InLog(last'.calls, "active_users")

\* A step of a webhook invocation: it arrives, suspends or returns.
WebhookStep == tasks' # tasks \/ WebhookReturns

\* C14: whatever the interleaving, a ledger write of an invocation adds or
\* overwrites its own subject's key with the record [paid = TRUE, timestamp
\* = the clock] and leaves every other key and record as they were, no
\* other step of an invocation touches the ledger, and every record in the
\* ledger is well formed.  So, with no deactivation, the keys are the
\* subjects whose notification reached its write, each with the record of
\* the last such write.
C14_UpsertsDoNotInterfere ==
    /\ [][WebhookWrites
          => LET s == last'.request.order_description IN
             /\ DOMAIN active_users' = DOMAIN active_users \cup {s}
             /\ active_users'[s] = [paid |-> TRUE, timestamp |-> clock]
             /\ \A k \in DOMAIN active_users \ {s} :
                   active_users'[k] = active_users[k]]_vars
    /\ [][(WebhookStep /\ ~WebhookWrites)
          => active_users' = active_users]_vars
    /\ [](\A k \in DOMAIN active_users :
            /\ DOMAIN active_users[k] = {"paid", "timestamp"}
            /\ active_users[k].paid
            /\ active_users[k].timestamp \in 0..clock)

\* C14 witness: every invocation has finished, the ledger holds both
\* subjects, and the last write overwrote a record of the same subject.
C14_Witness ==
    /\ tasks = EmptyBag
    /\ DOMAIN active_users = Subjects
    /\ LastConfirmed
    /\ InLog(last.calls, "active_users")
    /\ last.prior.paid

\* What str(e) of the 500 response can be.
Exceptions ==
    {"JSONDecodeError", "ValidationError", "RuntimeError", "HTTPException"}

\* t's log is the beginning of the log calls.
LogExtends(t, calls) ==
    /\ Len(t.calls) <= Len(calls)
    /\ \A i \in 1..Len(t.calls) : calls[i] = t.calls[i]

\* C15: every invocation that ends returns a response, 200 or 500; an
\* exception that a collaborator raises and the helpers do not swallow, and
\* an exception of request parsing, ends the invocation with a 500 whose
\* error detail is that exception.
C15_ExceptionsBecome500 ==
    /\ [](last.op = "webhook"
            => (/\ last.code \in {200, 500}
                /\ last.code = 500 => last.body \in Exceptions))
    /\ [][BagCardinality(tasks') < BagCardinality(tasks)
          => (/\ last'.op = "webhook"
              /\ \E t \in BagToSet(tasks) :
                    /\ tasks' = tasks (-) SetToBag({t})
                    /\ last'.request = t.data
                    /\ LogExtends(t, last'.calls))]_vars
    /\ [][BagCardinality(tasks') < BagCardinality(tasks)
          => \A t \in BagToSet(tasks) :
                LET e == IF t.pc \in {"send_message", "unban_chat_member"}
                         THEN "RuntimeError" ELSE "HTTPException"
                IN  (\/ t.pc = "send_message" /\ send_message_returns(t, e)
                     \/ t.pc = "channel_send" /\ channel_send_returns(t, e)
                     \/ t.pc = "unban_chat_member"
                            /\ unban_chat_member_returns(t, e)
                     \/ t.pc = "create_invite"
                            /\ create_invite_returns(t, e))
                    => (/\ last'.op = "webhook"
                        /\ last'.code = 500
                        /\ last'.body = e
                        /\ last'.request = t.data
                        /\ last'.calls = t.calls)]_vars
    /\ [][(tasks' = tasks /\ last' # last)
          => \A data \in Bodies :
                (Malformed(data) /\ handle_webhook(data, TRUE))
                    => (/\ last'.op = "webhook"
                        /\ last'.code = 500
                        /\ last'.body \in Exceptions
                        /\ last'.request = data)]_vars

\* C15 witness: an invocation that had reached the Guild grantor ended with
\* the 500 response for the exception of create_invite, another invocation
\* being in flight.
C15_Witness ==
    /\ LastConfirmed
    /\ last.code = 500
    /\ last.body = "HTTPException"
    /\ InLog(last.calls, "give_discord_access")
    /\ tasks # EmptyBag

\* C16: a key enters the ledger only in the ledger write of an invocation
\* for a confirmed notification with that subject, and leaves it only in a
\* deactivate_user request for that key.
C16_LedgerLifecycle ==
    [][\A k \in DOMAIN active_users \cup DOMAIN active_users' :
          /\ (k \notin DOMAIN active_users /\ k \in DOMAIN active_users')
                => (/\ WebhookWrites
                    /\ ~Malformed(last'.request)
                    /\ last'.request.payment_status = "confirmed"
                    /\ last'.request.order_description = k)
          /\ (k \in DOMAIN active_users /\ k \notin DOMAIN active_users')
                => (/\ DeactivateStep
                    /\ last'.request = k
                    /\ last'.code = 200)]_vars

\* C16 witness: a deactivation of an absent subject was answered 404 while
\* the other subject stayed in the ledger and a webhook was in flight.
C16_Witness ==
    /\ last.op = "deactivate"
    /\ last.code = 404
    /\ DOMAIN active_users # {}
    /\ \E t \in BagToSet(tasks) : t.pc = "create_invite"

\* C17: every entry of the ledger has paid = TRUE.
C17_EveryEntryPaid ==
    \A k \in DOMAIN active_users :
        /\ "paid" \in DOMAIN active_users[k]
        /\ active_users[k].paid = TRUE

\* C17 witness: both subjects are in the ledger, written at different
\* times, and a later webhook has failed.
C17_Witness ==
    /\ DOMAIN active_users = Subjects
    /\ \E j, k \in Subjects :
          active_users[j].timestamp < active_users[k].timestamp
    /\ last.op = "webhook"
    /\ last.code = 500

\* The calls of an invocation that writes the ledger, in their order.
FullLog ==
    <<"send_telegram_message", "send_discord_message",
      "give_telegram_access", "give_discord_access", "active_users">>

\* C18: the ledger write is the last effect of its invocation: it comes
\* after the two fanout sends and the two grantor calls, it is made in the
\* step in which the last grantor call ends, and no invocation that has
\* written is ever suspended in a further call.
C18_LedgerWriteIsLast ==
    /\ [](\A t \in BagToSet(tasks) : ~InLog(t.calls, "active_users"))
    /\ []((last.op = "webhook" /\ InLog(last.calls, "active_users"))
            => last.calls = FullLog)
    /\ [][active_users' # active_users /\ ~DeactivateStep
          => (/\ WebhookWrites
              /\ \E t \in BagToSet(tasks) :
                    /\ t.pc \in {"unban_chat_member", "create_invite"}
                    /\ tasks' = tasks (-) SetToBag({t})
                    /\ last'.request = t.data)]_vars

\* C18 witness: a confirmed notification went through the four calls and
\* the write, for a subject the ledger did not hold, and nothing is in
\* flight.
C18_Witness ==
    /\ LastConfirmed
    /\ last.code = 200
    /\ last.calls = FullLog
    /\ ~last.prior.paid
    /\ tasks = EmptyBag

\* C19: an invocation that returns a 5xx has made no ledger write, in its
\* last step or before; an invocation changes the ledger only when it
\* returns the 200 acknowledgment for a confirmed notification, and every
\* such return has written the subject's entry.
C19_ErrorMeansNoWrite ==
    /\ [][(WebhookReturns /\ last'.code >= 500)
          => (/\ active_users' = active_users
              /\ ~InLog(last'.calls, "active_users"))]_vars
    /\ [][(WebhookStep /\ ~WebhookReturns)
          => active_users' = active_users]_vars
    /\ [][(WebhookReturns /\ active_users' # active_users)
          => (/\ last'.code = 200
              /\ ~Malformed(last'.request)
              /\ last'.request.payment_status = "confirmed")]_vars
    /\ [][(/\ WebhookReturns
           /\ last'.code = 200
           /\ ~Malformed(last'.request)
           /\ last'.request.payment_status = "confirmed")
          => (/\ InLog(last'.calls, "active_users")
              /\ last'.request.order_description
                    \in DOMAIN active_users')]_vars

\* C19 witness: a confirmed notification ended in a 500 after the Group
\* grantor raised; its subject is not in the ledger, the other subject is.
C19_Witness ==
    /\ LastConfirmed
    /\ last.code = 500
    /\ last.body = "RuntimeError"
    /\ InLog(last.calls, "give_telegram_access")
    /\ last.request.order_description \notin DOMAIN active_users
    /\ DOMAIN active_users # {}

\* C20: deactivate_user is one step: it suspends nothing, answers 200 when
\* the ledger holds the subject and 404 when it does not, never anything
\* else, and leaves the subject absent; so of two deactivations of one
\* subject with no request completing in between, the second is a 404.
C20_DeactivateAtomic ==
    /\ [][DeactivateStep
          => (/\ tasks' = tasks
              /\ last'.code \in {200, 404}
              /\ last'.code = 200 <=> last'.request \in DOMAIN active_users
              /\ last'.request \notin DOMAIN active_users')]_vars
    /\ [][(/\ last.op = "deactivate"
           /\ DeactivateStep
           /\ last'.request = last.request)
          => (last.code = 200 /\ last'.code = 404)]_vars
    /\ [](last.op = "deactivate"
            => last.request \notin DOMAIN active_users)

\* C20 witness: a subject was removed while a confirmed notification for
\* the same subject was suspended in the Group grantor.
C20_Witness ==
    /\ last.op = "deactivate"
    /\ last.code = 200
    /\ last.request \notin DOMAIN active_users
    /\ \E t \in BagToSet(tasks) :
          /\ t.pc = "unban_chat_member"
          /\ t.data.order_description = last.request

====
